---- MODULE Spec2Model ----
(***************************************************************************)
(* A model of git-loc.py: the classifier group()/getlang(), the traversal  *)
(* and accumulation loop tree(), the formatter fmttotals() and the driver  *)
(* cli().  Strings whose characters matter (paths, group keys) are         *)
(* sequences of one-character strings; blob contents are sequences of      *)
(* byte names ("x", "SP", "TAB", "LF").                                     *)
(***************************************************************************)
EXTENDS Integers, Sequences, FiniteSets, TLC

VARIABLES
    pc,           \* position of cli(): start, open, resolve, loop, done, aborted;
                  \* call, ret of a single function; hist in history mode
    config,       \* the config dict: groupby, fmt
    repo,         \* the tree of the chosen revision, flattened in traversal order
    items,        \* tree(): the blobs still to be processed by the for loop
    seen,         \* history: the blobs the for loop has processed, in order
    totals,       \* the totals dict: group key -> defaultdict(int) of metrics
    totals_keys,  \* insertion order of the totals dict
    lang_cache,   \* the _lang_cache dict: file name -> language
    output,       \* rows printed (table) or written to the report file
    outfile,      \* suffix of the report file written, or "none"
    confirmed,    \* whether 'Wrote report to ...' was printed
    failed,       \* history: the exception raised in cli(), or "no"
    arg,          \* input of a function under test
    res,          \* its result
    hist,         \* history mode: change records still to be folded
    hseen,        \* history mode: change records folded so far
    net           \* history mode: extension -> net-lines

vars == <<pc, config, repo, items, seen, totals, totals_keys, lang_cache,
          output, outfile, confirmed, failed, arg, res, hist, hseen, net>>

(***************************************************************************)
(* Bounds.                                                                 *)
(***************************************************************************)
MaxEntries == 3
MaxNameLen == 4
MaxData == 4
MaxRecords == 2

(***************************************************************************)
(* Program constants.                                                      *)
(***************************************************************************)
COLS == <<"files", "lines", "blanks", "bytes">>

GROUPS == {"extension", "mime-type", "language"}

FMTS == {"table", "csv", "json", "yaml"}

ColSet == {COLS[i] : i \in 1..Len(COLS)}

K_total == <<"t","o","t","a","l">>

K_other == <<"o","t","h","e","r">>

\* Blob.DEFAULT_MIME_TYPE of the git library
DEFAULT_MIME_TYPE == <<"t","e","x","t","/","p","l","a","i","n">>

(***************************************************************************)
(* Characters and strings.                                                 *)
(***************************************************************************)
\* code point of a character (the ones the model uses)
Ord(c) ==
    CASE c = "-" -> 45 [] c = "." -> 46 [] c = "/" -> 47
      [] c = "A" -> 65 [] c = "D" -> 68 [] c = "E" -> 69 [] c = "M" -> 77
      [] c = "P" -> 80 [] c = "R" -> 82
      [] c = "a" -> 97 [] c = "b" -> 98 [] c = "c" -> 99 [] c = "d" -> 100
      [] c = "e" -> 101 [] c = "f" -> 102 [] c = "g" -> 103 [] c = "h" -> 104
      [] c = "i" -> 105 [] c = "k" -> 107 [] c = "l" -> 108 [] c = "m" -> 109
      [] c = "n" -> 110 [] c = "o" -> 111 [] c = "p" -> 112 [] c = "r" -> 114
      [] c = "s" -> 115 [] c = "t" -> 116 [] c = "u" -> 117 [] c = "x" -> 120
      [] c = "y" -> 121

\* s < t for Python strings: code point by code point, a proper prefix first
RECURSIVE StrLess(_, _)
StrLess(s, t) ==
    IF t = <<>> THEN FALSE
    ELSE IF s = <<>> THEN TRUE
    ELSE IF Head(s) = Head(t) THEN StrLess(Tail(s), Tail(t))
    ELSE Ord(Head(s)) < Ord(Head(t))

\* str.rfind(c): the last position of c in s, 0 when absent (1-based)
RECURSIVE RFind(_, _)
RFind(s, c) ==
    IF s = <<>> THEN 0
    ELSE IF s[Len(s)] = c THEN Len(s)
    ELSE RFind(SubSeq(s, 1, Len(s) - 1), c)

\* str(int)
RECURSIVE Dec(_)
Dec(n) ==
    LET digit(d) == <<"0","1","2","3","4","5","6","7","8","9">>[d + 1]
    IN  IF n < 10 THEN <<digit(n)>> ELSE Dec(n \div 10) \o <<digit(n % 10)>>

\* int(str) of a string of decimal digits, commas skipped
RECURSIVE ParseInt(_)
ParseInt(s) ==
    LET val(c) == CHOOSE d \in 0..9 : <<"0","1","2","3","4","5","6","7","8","9">>[d + 1] = c
    IN  IF s = <<>> THEN 0
        ELSE IF s[Len(s)] = "," THEN ParseInt(SubSeq(s, 1, Len(s) - 1))
        ELSE 10 * ParseInt(SubSeq(s, 1, Len(s) - 1)) + val(s[Len(s)])

\* fmtint: f'{value:,}', decimal digits in comma-separated groups of three
RECURSIVE fmtint(_)
fmtint(value) ==
    LET low == value % 1000
        pad == IF low < 10 THEN <<"0","0">> ELSE IF low < 100 THEN <<"0">> ELSE <<>>
    IN  IF value < 1000 THEN Dec(value)
        ELSE fmtint(value \div 1000) \o <<",">> \o pad \o Dec(low)

(***************************************************************************)
(* pathlib: Path(path).name and Path(path).suffix.                         *)
(***************************************************************************)
\* the final path component
PathName(path) == SubSeq(path, RFind(path, "/") + 1, Len(path))

\* the final component's last suffix with its dot; '' when the last dot is
\* the first or the last character of the name, or there is none
PathSuffix(path) ==
    LET name == PathName(path)
        i == RFind(name, ".")
    IN  IF 1 < i /\ i < Len(name) THEN SubSeq(name, i, Len(name)) ELSE <<>>

(***************************************************************************)
(* mimetypes.guess_type and the bundled language table.                    *)
(***************************************************************************)
\* posixpath.splitext(path)[1]: the extension with its dot, leading dots of
\* the name skipped
SplitExt(path) ==
    LET name == PathName(path)
        i == RFind(name, ".")
    IN  IF \E j \in 1..(i - 1) : name[j] # "." THEN SubSeq(name, i, Len(name)) ELSE <<>>

\* guess_type(path)[0]: the type registered for the extension, <<>> for None
guess_type(path) ==
    IF SplitExt(path) = <<".","p","y">>
    THEN <<"t","e","x","t","/","x","-","p","y","t","h","o","n">>
    ELSE <<>>

\* languages.yml: language -> filenames, extensions; in declaration order
LANGS ==
    << [name |-> <<"M","a","k","e","f","i","l","e">>,
        filenames |-> {<<"M","a","k","e","f","i","l","e">>},
        extensions |-> {<<".","m","k">>}],
       [name |-> <<"P","y","t","h","o","n">>,
        filenames |-> {},
        extensions |-> {<<".","p","y">>}] >>

\* the languages of LANGS that claim the path, by position
LangMatches(path) ==
    {i \in 1..Len(LANGS) :
        \/ PathName(path) \in LANGS[i].filenames
        \/ PathSuffix(path) \in LANGS[i].extensions}

\* getlang(path): the cached language of the name, else the first language
\* of LANGS that claims it, else 'other'
getlang(path, cache) ==
    IF PathName(path) \in DOMAIN cache THEN cache[PathName(path)]
    ELSE IF LangMatches(path) # {}
    THEN LANGS[CHOOSE i \in LangMatches(path) : \A j \in LangMatches(path) : i <= j].name
    ELSE K_other

\* _lang_cache after getlang(path): a match is stored, 'other' is not
getlangCache(path, cache) ==
    IF PathName(path) \notin DOMAIN cache /\ LangMatches(path) # {}
    THEN cache @@ (PathName(path) :> getlang(path, cache))
    ELSE cache

\* a faulty variant of extension mode: everything after the last dot of the
\* name, wherever the dot stands
groupExtensionAfterLastDot(path) ==
    LET name == PathName(path)
        i == RFind(name, ".")
    IN  IF i > 0 /\ i < Len(name) THEN SubSeq(name, i + 1, Len(name)) ELSE K_other

\* group(path) in extension mode
groupExtension(path) ==
    IF PathSuffix(path) # <<>> THEN Tail(PathSuffix(path)) ELSE K_other

\* group(path) under grouping mode groupby, with _lang_cache = cache
group(path, groupby, cache) ==
    CASE groupby = "extension" -> groupExtension(path)
      [] groupby = "mime-type" ->
            IF guess_type(path) # <<>> THEN guess_type(path) ELSE DEFAULT_MIME_TYPE
      [] groupby = "language" -> getlang(path, cache)

(***************************************************************************)
(* The repository: blobs and the tree of the revision.                     *)
(***************************************************************************)
RECURSIVE Rep(_, _)
Rep(s, n) == IF n = 0 THEN <<>> ELSE s \o Rep(s, n - 1)

\* the content of each object of the store
BlobData(oid) ==
    CASE oid = "A" -> Rep(<<"x", "LF">>, 10)          \* 10 non-blank lines
      [] oid = "B" -> <<"LF", "SP", "TAB", "LF">>      \* 2 blank lines
      [] oid = "R" -> <<"x", "x">>                     \* 1 line, no newline
      [] oid = "X" -> <<"SP", "LF", "x", "SP", "LF">>  \* 1 blank, 1 non-blank
      [] oid = "E" -> <<>>                             \* zero bytes
      [] OTHER -> <<>>

\* the entries a tree of the model may hold
RepoEntries ==
    { [path |-> <<".","g","i","t","i","g","n","o","r","e">>, oid |-> "E", kind |-> "blob"],
      [path |-> <<"M","a","k","e","f","i","l","e">>, oid |-> "X", kind |-> "blob"],
      [path |-> <<"R","E","A","D","M","E">>, oid |-> "R", kind |-> "blob"],
      [path |-> <<"a",".","p","y">>, oid |-> "A", kind |-> "blob"],
      [path |-> <<"b",".","p","y">>, oid |-> "B", kind |-> "blob"],
      [path |-> <<"d">>, oid |-> "T", kind |-> "tree"],
      [path |-> <<"d","/","c",".","p","y">>, oid |-> "A", kind |-> "blob"],
      [path |-> <<"s","u","b">>, oid |-> "S", kind |-> "commit"],
      [path |-> <<"x",".","t","o","t","a","l">>, oid |-> "R", kind |-> "blob"] }

\* git orders the entries of a tree by name, a directory as if it ended in /
SortKey(e) == IF e.kind = "tree" THEN e.path \o <<"/">> ELSE e.path

RECURSIVE InTreeOrder(_)
InTreeOrder(S) ==
    IF S = {} THEN <<>>
    ELSE LET m == CHOOSE e \in S : \A f \in S \ {e} : StrLess(SortKey(e), SortKey(f))
         IN  <<m>> \o InTreeOrder(S \ {m})

\* a file below d needs the directory d
Consistent(S) ==
    \A e \in S : RFind(e.path, "/") > 0 =>
        \E t \in S : t.kind = "tree" /\ t.path = SubSeq(e.path, 1, RFind(e.path, "/") - 1)

Repos ==
    { InTreeOrder(S) : S \in {T \in SUBSET RepoEntries :
                                Cardinality(T) <= MaxEntries /\ Consistent(T)} }

\* repo.tree(rev).traverse(lambda i, d: isinstance(i, Blob), visit_once=True):
\* depth first, every object once, blobs returned
RECURSIVE traverse(_, _)
traverse(entries, visited) ==
    IF entries = <<>> THEN <<>>
    ELSE LET e == Head(entries)
         IN  IF e.oid \in visited THEN traverse(Tail(entries), visited)
             ELSE (IF e.kind = "blob" THEN <<e>> ELSE <<>>)
                  \o traverse(Tail(entries), visited \cup {e.oid})

(***************************************************************************)
(* Lines of a blob.                                                        *)
(***************************************************************************)
\* the bytes bytes.isspace() takes for whitespace
Whitespace == {"SP", "TAB", "LF", "CR", "VT", "FF"}

\* stream.readlines(): the data cut after every LF, terminators kept
RECURSIVE readlines(_)
readlines(data) ==
    IF data = <<>> THEN <<>>
    ELSE LET n == IF \E i \in 1..Len(data) : data[i] = "LF"
                  THEN CHOOSE i \in 1..Len(data) :
                          data[i] = "LF" /\ \A j \in 1..(i - 1) : data[j] # "LF"
                  ELSE Len(data)
         IN  <<SubSeq(data, 1, n)>> \o readlines(SubSeq(data, n + 1, Len(data)))

\* bytes.isspace(): non-empty and whitespace only
isspace(line) == line # <<>> /\ \A i \in 1..Len(line) : line[i] \in Whitespace

\* a faulty variant: the line terminator is stripped before the test
LineKindStripped(line) ==
    LET body == IF line # <<>> /\ line[Len(line)] = "LF"
                THEN SubSeq(line, 1, Len(line) - 1) ELSE line
    IN  IF isspace(body) THEN "blanks" ELSE "lines"

\* k = 'blanks' if line.isspace() else 'lines'
LineKind(line) == IF isspace(line) THEN "blanks" ELSE "lines"

(***************************************************************************)
(* defaultdict(int) and the totals dict.                                   *)
(***************************************************************************)
\* d[k]: a read of a defaultdict
Get(d, k) == IF k \in DOMAIN d THEN d[k] ELSE 0

\* the defaultdict after the read d[k]: a missing key is inserted as 0
Touch(d, k) == IF k \in DOMAIN d THEN d ELSE d @@ (k :> 0)

\* d[k] += n
Inc(d, k, n) == IF k \in DOMAIN d THEN [d EXCEPT ![k] = @ + n] ELSE d @@ (k :> n)

EmptyDict == [k \in {} |-> 0]

\* a faulty variant: totals[ext] = defaultdict(int), the group starts over
SetDefaultOverwrite(t, ext) == (ext :> EmptyDict) @@ t

\* totals.setdefault(ext, defaultdict(int))
SetDefault(t, ext) == IF ext \in DOMAIN t THEN t ELSE t @@ (ext :> EmptyDict)

\* totals[ext][k] += n; totals['total'][k] += n
Add2(t, ext, k, n) ==
    LET t1 == [t EXCEPT ![ext] = Inc(@, k, n)]
    IN  [t1 EXCEPT ![K_total] = Inc(@, k, n)]

\* the inner loop of tree(): one increment of ext and of total per line
RECURSIVE CountLines(_, _, _)
CountLines(t, ext, lines) ==
    IF lines = <<>> THEN t
    ELSE CountLines(Add2(t, ext, LineKind(Head(lines)), 1), ext, Tail(lines))

\* lines 89-94 of tree(): the group is created, files and bytes are counted
CountFile(t, ext, item) ==
    Add2(Add2(SetDefault(t, ext), ext, "files", 1), ext, "bytes", Len(BlobData(item.oid)))

(***************************************************************************)
(* fmttotals().                                                            *)
(***************************************************************************)
\* sorted(seq, key=...): a stable sort; lt[a, b] iff key(seq[a]) < key(seq[b])
Sorted(seq, lt) ==
    LET \* x goes behind every position that is not after it
        Ins(rest, x) ==
            LET n == IF \E i \in 1..Len(rest) : lt[x, rest[i]]
                     THEN (CHOOSE i \in 1..Len(rest) :
                             lt[x, rest[i]] /\ \A j \in 1..(i - 1) : ~lt[x, rest[j]]) - 1
                     ELSE Len(rest)
            IN  SubSeq(rest, 1, n) \o <<x>> \o SubSeq(rest, n + 1, Len(rest))
        f[n \in 0..Len(seq)] == IF n = 0 THEN <<>> ELSE Ins(f[n - 1], n)
    IN  [i \in 1..Len(seq) |-> seq[f[Len(seq)][i]]]

\* the totals dict after counts[col] was read for every col of cols in every
\* group: the defaultdicts insert the keys they miss
TouchAll(t, cols) ==
    [g \in DOMAIN t |-> [c \in (DOMAIN t[g]) \cup cols |-> Get(t[g], c)]]

\* totals.items(), in insertion order
Entries(t, keys) == [i \in 1..Len(keys) |-> <<keys[i], t[keys[i]]>>]

\* lines 113-117: the rows of the table, sorted by counts['lines']
TableRows(t, keys) ==
    LET byLines == [a \in 1..Len(keys), b \in 1..Len(keys) |->
                        Get(t[keys[a]], "lines") < Get(t[keys[b]], "lines")]
        sorted == Sorted(Entries(t, keys), byLines)
    IN  [i \in 1..Len(sorted) |->
            <<sorted[i][1]>> \o [c \in 1..Len(COLS) |-> fmtint(Get(sorted[i][2], COLS[c]))]]

\* a faulty variant: the rows are written in the order of the dict
CsvRowsUnsorted(t, keys) ==
    [i \in 1..Len(keys) |->
        <<keys[i]>> \o [c \in 1..Len(COLS) |-> Dec(Get(t[keys[i]], COLS[c]))]]

\* lines 122-126: the rows of the csv file, sorted by x[1], the first count
CsvRows(t, keys) ==
    LET rows == [i \in 1..Len(keys) |->
                    <<keys[i]>> \o [c \in 1..Len(COLS) |-> Get(t[keys[i]], COLS[c])]]
        byFirst == [a \in 1..Len(keys), b \in 1..Len(keys) |-> rows[a][2] < rows[b][2]]
        sorted == Sorted(rows, byFirst)
    IN  [i \in 1..Len(sorted) |->
            <<sorted[i][1]>> \o [c \in 1..Len(COLS) |-> Dec(sorted[i][c + 1])]]

\* the metric names in sorted order
SortedCols == <<"blanks", "bytes", "files", "lines">>

\* a mapping written with its keys sorted: the members a dict holds
Members(d) ==
    LET has == [i \in 1..Len(SortedCols) |-> SortedCols[i] \in DOMAIN d]
        pick == {i \in 1..Len(SortedCols) : has[i]}
        RECURSIVE Walk(_)
        Walk(i) == IF i > Len(SortedCols) THEN <<>>
                   ELSE (IF i \in pick
                         THEN << <<SortedCols[i], Dec(d[SortedCols[i]])>> >>
                         ELSE <<>>) \o Walk(i + 1)
    IN  Walk(1)

\* line 129, json.dump(totals, sort_keys=True), and line 132, yaml.dump of
\* plain dicts: groups and metrics in key order
KeySortedRows(t, keys) ==
    LET byKey == [a \in 1..Len(keys), b \in 1..Len(keys) |-> StrLess(keys[a], keys[b])]
        sorted == Sorted(Entries(t, keys), byKey)
    IN  [i \in 1..Len(sorted) |-> <<sorted[i][1], Members(sorted[i][2])>>]

(***************************************************************************)
(* cli(): the run.                                                         *)
(***************************************************************************)
NoCall == [f |-> "none"]

\* a faulty variant: the exception is swallowed and the run goes on
OnErrorContinue == "loop"

\* what an exception does to cli(): nothing catches it, the run ends

OnError == "aborted"

\* a faulty variant: the report is started while items are left
TreeReturnsEarly == TRUE

\* the for loop of tree() has run out of items: tree() returns to cli()

TreeReturned == items = <<>>

Init ==
    /\ pc = "start"
    /\ config = [groupby |-> "language", fmt |-> "table"]
    /\ repo \in Repos
    /\ items = <<>>
    /\ seen = <<>>
    /\ totals = (K_total :> EmptyDict)
    /\ totals_keys = <<K_total>>
    /\ lang_cache = EmptyDict
    /\ output = <<>>
    /\ outfile = "none"
    /\ confirmed = FALSE
    /\ failed = "no"
    /\ arg = NoCall
    /\ res = NoCall
    /\ hist = <<>>
    /\ hseen = <<>>
    /\ net = EmptyDict

\* line 171: config.update(...)
ConfigUpdate ==
    /\ pc = "start"
    /\ \E g \in GROUPS, f \in FMTS : config' = [groupby |-> g, fmt |-> f]
    /\ pc' = "open"
    /\ UNCHANGED <<repo, items, seen, totals, totals_keys, lang_cache, output,
                   outfile, confirmed, failed, arg, res, hist, hseen, net>>

\* line 172: repo = Repo(working_dir)
OpenRepo ==
    /\ pc = "open"
    /\ pc' = "resolve"
    /\ UNCHANGED <<config, repo, items, seen, totals, totals_keys, lang_cache,
                   output, outfile, confirmed, failed, arg, res, hist, hseen, net>>

\* line 172 raises: not a repository
OpenRepoFails ==
    /\ pc = "open"
    /\ pc' = OnError
    /\ failed' = "repository"
    /\ UNCHANGED <<config, repo, items, seen, totals, totals_keys, lang_cache,
                   output, outfile, confirmed, arg, res, hist, hseen, net>>

\* line 87: items = list(repo.tree(rev).traverse(...))
ListItems ==
    /\ pc = "resolve"
    /\ items' = traverse(repo, {})
    /\ pc' = "loop"
    /\ UNCHANGED <<config, repo, seen, totals, totals_keys, lang_cache, output,
                   outfile, confirmed, failed, arg, res, hist, hseen, net>>

\* line 87 raises: the revision does not resolve, or an object is unreadable
ListItemsFails ==
    /\ pc = "resolve"
    /\ pc' = OnError
    /\ failed' = "revision"
    /\ UNCHANGED <<config, repo, items, seen, totals, totals_keys, lang_cache,
                   output, outfile, confirmed, arg, res, hist, hseen, net>>

\* lines 88-99: one pass of the for loop
TreeStep ==
    /\ pc = "loop"
    /\ items # <<>>
    /\ LET item == Head(items)
           ext == group(item.path, config.groupby, lang_cache)
       IN  /\ totals' = CountLines(CountFile(totals, ext, item), ext,
                                   readlines(BlobData(item.oid)))
           /\ totals_keys' = IF ext \in DOMAIN totals THEN totals_keys
                             ELSE Append(totals_keys, ext)
           /\ lang_cache' = IF config.groupby = "language"
                            THEN getlangCache(item.path, lang_cache) ELSE lang_cache
           /\ seen' = Append(seen, item)
    /\ items' = Tail(items)
    /\ UNCHANGED <<pc, config, repo, output, outfile, confirmed, failed, arg, res,
                   hist, hseen, net>>

\* line 96 raises in a pass of the loop: lines 89-94 have run for the item
ReadFails ==
    /\ pc = "loop"
    /\ items # <<>>
    /\ LET item == Head(items)
           ext == group(item.path, config.groupby, lang_cache)
       IN  /\ totals' = CountFile(totals, ext, item)
           /\ totals_keys' = IF ext \in DOMAIN totals THEN totals_keys
                             ELSE Append(totals_keys, ext)
           /\ lang_cache' = IF config.groupby = "language"
                            THEN getlangCache(item.path, lang_cache) ELSE lang_cache
    /\ pc' = OnError
    /\ failed' = "read"
    /\ UNCHANGED <<config, repo, items, seen, output, outfile, confirmed, arg, res,
                   hist, hseen, net>>

\* lines 112-118: fmt == 'table'
FmtTable ==
    /\ pc = "loop"
    /\ TreeReturned
    /\ config.fmt = "table"
    /\ output' = [header |-> <<config.groupby>> \o COLS,
                  rows |-> TableRows(totals, totals_keys)]
    /\ totals' = TouchAll(totals, ColSet)
    /\ pc' = "done"
    /\ UNCHANGED <<config, repo, items, seen, totals_keys, lang_cache, outfile,
                   confirmed, failed, arg, res, hist, hseen, net>>

\* lines 119-126, 133: fmt == 'csv'
FmtCsv ==
    /\ pc = "loop"
    /\ TreeReturned
    /\ config.fmt = "csv"
    /\ output' = [header |-> <<config.groupby>> \o COLS,
                  rows |-> CsvRows(totals, totals_keys)]
    /\ totals' = TouchAll(totals, ColSet)
    /\ outfile' = "csv"
    /\ confirmed' = TRUE
    /\ pc' = "done"
    /\ UNCHANGED <<config, repo, items, seen, totals_keys, lang_cache, failed,
                   arg, res, hist, hseen, net>>

\* lines 119, 127-129, 133: fmt == 'json'
FmtJson ==
    /\ pc = "loop"
    /\ TreeReturned
    /\ config.fmt = "json"
    /\ output' = [header |-> <<>>, rows |-> KeySortedRows(totals, totals_keys)]
    /\ outfile' = "json"
    /\ confirmed' = TRUE
    /\ pc' = "done"
    /\ UNCHANGED <<config, repo, items, seen, totals, totals_keys, lang_cache,
                   failed, arg, res, hist, hseen, net>>

\* lines 119, 130-133: fmt == 'yaml'
FmtYaml ==
    /\ pc = "loop"
    /\ TreeReturned
    /\ config.fmt = "yaml"
    /\ output' = [header |-> <<>>, rows |-> KeySortedRows(totals, totals_keys)]
    /\ outfile' = "yaml"
    /\ confirmed' = TRUE
    /\ pc' = "done"
    /\ UNCHANGED <<config, repo, items, seen, totals, totals_keys, lang_cache,
                   failed, arg, res, hist, hseen, net>>

Next ==
    \/ ConfigUpdate
    \/ OpenRepo
    \/ OpenRepoFails
    \/ ListItems
    \/ ListItemsFails
    \/ TreeStep
    \/ ReadFails
    \/ FmtTable
    \/ FmtCsv
    \/ FmtJson
    \/ FmtYaml

Spec == Init /\ [][Next]_vars

(***************************************************************************)
(* The classifier alone: group(path) for every short file name.            *)
(***************************************************************************)
RECURSIVE SeqsUpTo(_, _)
SeqsUpTo(S, n) ==
    IF n = 0 THEN {<<>>}
    ELSE LET shorter == SeqsUpTo(S, n - 1)
         IN  shorter \cup {Append(s, c) : s \in shorter, c \in S}

Names == SeqsUpTo({".", "a", "b"}, MaxNameLen) \ {<<>>}

Idle ==
    /\ repo = <<>>
    /\ items = <<>>
    /\ seen = <<>>
    /\ totals = (K_total :> EmptyDict)
    /\ totals_keys = <<K_total>>
    /\ output = <<>>
    /\ outfile = "none"
    /\ confirmed = FALSE
    /\ failed = "no"

InitGroup ==
    /\ pc = "call"
    /\ \E g \in GROUPS : config = [groupby |-> g, fmt |-> "table"]
    /\ \E n \in Names : arg = [f |-> "group", path |-> n]
    /\ res = NoCall
    /\ lang_cache = EmptyDict
    /\ Idle
    /\ hist = <<>>
    /\ hseen = <<>>
    /\ net = EmptyDict

\* lines 69-76: ext = group(path)
CallGroup ==
    /\ pc = "call"
    /\ arg.f = "group"
    /\ res' = [f |-> "group", value |-> group(arg.path, config.groupby, lang_cache)]
    /\ lang_cache' = IF config.groupby = "language"
                     THEN getlangCache(arg.path, lang_cache) ELSE lang_cache
    /\ pc' = "ret"
    /\ UNCHANGED <<config, repo, items, seen, totals, totals_keys, output, outfile,
                   confirmed, failed, arg, hist, hseen, net>>

NextGroup == CallGroup

SpecGroup == InitGroup /\ [][NextGroup]_vars

(***************************************************************************)
(* The line loop alone: every short blob content.                          *)
(***************************************************************************)
Contents == SeqsUpTo({"x", "SP", "TAB", "LF"}, MaxData)

InitLines ==
    /\ pc = "call"
    /\ config = [groupby |-> "language", fmt |-> "table"]
    /\ \E d \in Contents : arg = [f |-> "readlines", data |-> d]
    /\ res = NoCall
    /\ lang_cache = EmptyDict
    /\ Idle
    /\ hist = <<>>
    /\ hseen = <<>>
    /\ net = EmptyDict

\* lines 96-97: the counter each line read from the blob goes to
CallLines ==
    /\ pc = "call"
    /\ arg.f = "readlines"
    /\ LET lines == readlines(arg.data)
       IN  res' = [f |-> "readlines",
                   kinds |-> [i \in 1..Len(lines) |->
                                [line |-> lines[i], k |-> LineKind(lines[i])]]]
    /\ pc' = "ret"
    /\ UNCHANGED <<config, repo, items, seen, totals, totals_keys, lang_cache, output,
                   outfile, confirmed, failed, arg, hist, hseen, net>>

NextLines == CallLines

SpecLines == InitLines /\ [][NextLines]_vars

(***************************************************************************)
(* History mode: net line deltas per extension.                            *)
(***************************************************************************)
HistFiles ==
    { <<"m","a","i","n",".","g","o">>,
      <<"R","E","A","D","M","E">>,
      <<"x",".","t","o","t","a","l">> }

\* the insertion and deletion counts a change record of the model may carry
Insertions == {0, 5, 50}

Deletions == {0, 5, 10}

ChangeRecords == [path : HistFiles, insertions : Insertions, deletions : Deletions]

\* a faulty variant: the two counts are added
HistNetChurn(r) == r.insertions + r.deletions

\* net = insertions - deletions
HistNet(r) == r.insertions - r.deletions

InitHist ==
    /\ pc = "hist"
    /\ config = [groupby |-> "extension", fmt |-> "table"]
    /\ hist \in SeqsUpTo(ChangeRecords, MaxRecords)
    /\ hseen = <<>>
    /\ net = EmptyDict
    /\ arg = NoCall
    /\ res = NoCall
    /\ lang_cache = EmptyDict
    /\ Idle

\* one change record is folded: a non-zero net is added to its extension
\* and to total, a zero net is skipped
HistStep ==
    /\ pc = "hist"
    /\ hist # <<>>
    /\ LET r == Head(hist)
           ext == groupExtension(r.path)
       IN  net' = IF HistNet(r) # 0
                  THEN Inc(Inc(net, ext, HistNet(r)), K_total, HistNet(r))
                  ELSE net
    /\ hseen' = Append(hseen, Head(hist))
    /\ hist' = Tail(hist)
    /\ UNCHANGED <<pc, config, repo, items, seen, totals, totals_keys, lang_cache,
                   output, outfile, confirmed, failed, arg, res>>

NextHist == HistStep

SpecHist == InitHist /\ [][NextHist]_vars

(***************************************************************************)
(* What the counters are meant to count, stated without the code's tests.  *)
(***************************************************************************)
RECURSIVE SumSeq(_)
SumSeq(ns) == IF ns = <<>> THEN 0 ELSE Head(ns) + SumSeq(Tail(ns))

RECURSIVE SumOver(_, _)
SumOver(S, f) ==
    IF S = {} THEN 0
    ELSE LET x == CHOOSE y \in S : TRUE IN f[x] + SumOver(S \ {x}, f)

\* the lines of a text without their terminators
RECURSIVE LineBodies(_)
LineBodies(data) ==
    IF data = <<>> THEN <<>>
    ELSE IF Head(data) = "LF" THEN <<<<>>>> \o LineBodies(Tail(data))
    ELSE LET rest == LineBodies(Tail(data))
         IN  IF Tail(data) = <<>> THEN <<<<Head(data)>>>>
             ELSE IF Tail(data)[1] = "LF"
                  THEN <<<<Head(data)>>>> \o LineBodies(Tail(Tail(data)))
             ELSE <<<<Head(data)>> \o Head(rest)>> \o Tail(rest)

\* a line is blank when nothing but whitespace is on it
BlankBody(body) == \A i \in 1..Len(body) : body[i] \in {"SP", "TAB", "CR", "VT", "FF"}

NumBlank(data) ==
    Cardinality({i \in 1..Len(LineBodies(data)) : BlankBody(LineBodies(data)[i])})

NumNonBlank(data) == Len(LineBodies(data)) - NumBlank(data)

\* the distinct blobs of the tree
UniqueBlobs == {repo[i].oid : i \in {j \in 1..Len(repo) : repo[j].kind = "blob"}}

\* tree() has returned
TreeFinished == (pc = "loop" /\ items = <<>>) \/ pc = "done"

\* the visited blobs that classify to g
BlobsOf(g) == {i \in 1..Len(seen) : group(seen[i].path, config.groupby, EmptyDict) = g}

GroupKeys == DOMAIN totals \ {K_total}

\* C1: when tree() has returned, total's files is the number of unique
\* blobs of the tree and the sum of files over the other groups.
C1_TotalFiles ==
    TreeFinished =>
        /\ Get(totals[K_total], "files") = Cardinality(UniqueBlobs)
        /\ Get(totals[K_total], "files")
             = SumOver(GroupKeys, [g \in GroupKeys |-> Get(totals[g], "files")])

\* C2: when tree() has returned, total's lines + blanks is the number of
\* lines of the visited blobs: each line was counted once.
C2_TotalLines ==
    TreeFinished =>
        Get(totals[K_total], "lines") + Get(totals[K_total], "blanks")
          = SumSeq([i \in 1..Len(seen) |-> Len(LineBodies(BlobData(seen[i].oid)))])

\* C3: when tree() has returned, every group other than total holds the
\* number of visited blobs that classify to it, the sum of their sizes and
\* the numbers of their non-blank and blank lines; a group exists only if a
\* visited blob classifies to it, and every visited blob has its group.
C3_GroupCounts ==
    TreeFinished =>
        /\ seen = traverse(repo, {})
        /\ \A i \in 1..Len(seen) :
              group(seen[i].path, config.groupby, EmptyDict) \in DOMAIN totals
        /\ \A g \in GroupKeys :
              LET data == [i \in BlobsOf(g) |-> BlobData(seen[i].oid)]
              IN  /\ BlobsOf(g) # {}
                  /\ Get(totals[g], "files") = Cardinality(BlobsOf(g))
                  /\ Get(totals[g], "bytes")
                       = SumOver(BlobsOf(g), [i \in BlobsOf(g) |-> Len(data[i])])
                  /\ Get(totals[g], "lines")
                       = SumOver(BlobsOf(g), [i \in BlobsOf(g) |-> NumNonBlank(data[i])])
                  /\ Get(totals[g], "blanks")
                       = SumOver(BlobsOf(g), [i \in BlobsOf(g) |-> NumBlank(data[i])])

\* the scenario of a.py, b.py and README grouped by extension
C3_Scenario ==
    /\ TreeFinished
    /\ config.groupby = "extension"
    /\ Len(seen) = 3
    /\ DOMAIN totals = {K_total, K_other, <<"p","y">>}
    /\ Get(totals[<<"p","y">>], "files") = 2
    /\ Get(totals[<<"p","y">>], "lines") = 10
    /\ Get(totals[<<"p","y">>], "blanks") = 2
    /\ Get(totals[K_other], "files") = 1
    /\ Get(totals[K_other], "lines") = 1
    /\ Get(totals[K_other], "blanks") = 0
    /\ Get(totals[K_total], "files") = 3
    /\ Get(totals[K_total], "lines") = 11
    /\ Get(totals[K_total], "blanks") = 2

\* the line count a written row states
RowLines(row) ==
    IF config.fmt \in {"table", "csv"} THEN ParseInt(row[3])
    ELSE LET at == {i \in 1..Len(row[2]) : row[2][i][1] = "lines"}
         IN  IF at = {} THEN 0 ELSE ParseInt(row[2][CHOOSE i \in at : TRUE][2])

LinesAscending ==
    \A i \in 1..Len(output.rows), j \in 1..Len(output.rows) :
        i < j => RowLines(output.rows[i]) <= RowLines(output.rows[j])

\* C5 as stated: the rows of every format are in ascending order of lines.
C5_SortedByLines == pc = "done" => LinesAscending

\* C5 as amended: the table is in ascending order of lines, the csv rows in
\* ascending order of files, json and yaml groups in ascending key order;
\* every group has its row.
C5_Ordering ==
    pc = "done" =>
        /\ Len(output.rows) = Len(totals_keys)
        /\ {output.rows[i][1] : i \in 1..Len(output.rows)} = DOMAIN totals
        /\ \A i \in 1..Len(output.rows), j \in 1..Len(output.rows) :
              i < j =>
                CASE config.fmt = "table" ->
                        ParseInt(output.rows[i][3]) <= ParseInt(output.rows[j][3])
                  [] config.fmt = "csv" ->
                        ParseInt(output.rows[i][2]) <= ParseInt(output.rows[j][2])
                  [] OTHER -> StrLess(output.rows[i][1], output.rows[j][1])

\* a file report of three groups that is not in order of lines
C5_FileNotByLines ==
    /\ pc = "done"
    /\ config.fmt \in {"csv", "json", "yaml"}
    /\ Len(output.rows) >= 3
    /\ ~LinesAscending

\* C6: once an exception was raised the run is over: nothing was printed or
\* written, and nothing will be.
C6_AbortNoReport ==
    failed # "no" =>
        /\ pc = "aborted"
        /\ output = <<>>
        /\ outfile = "none"
        /\ ~confirmed

\* a run that failed in the middle of the traversal
C6_FailedMidway ==
    /\ failed = "read"
    /\ pc = "aborted"
    /\ seen # <<>>
    /\ items # <<>>
    /\ outfile = "none"

\* C9: fmttotals leaves the totals dict as it found it.
C9_FmtPureRead == [][(pc = "loop" /\ pc' = "done") => totals' = totals]_vars

\* C10: whatever was printed or written was produced after the last blob of
\* the traversal was counted.
C10_FormatAfterTraversal ==
    (output # <<>> \/ outfile # "none" \/ confirmed) =>
        /\ items = <<>>
        /\ seen = traverse(repo, {})
        /\ pc = "done"

\* a report of a tree of at least two blobs
C10_Reported ==
    /\ pc = "done"
    /\ Len(seen) >= 2
    /\ output # <<>>
    /\ Len(output.rows) >= 2

\* the last dot of a name, 0 when it has none
LastDot(name) ==
    IF \E i \in 1..Len(name) : name[i] = "."
    THEN CHOOSE i \in 1..Len(name) : name[i] = "." /\ \A j \in (i + 1)..Len(name) : name[j] # "."
    ELSE 0

AfterLastDot(name) == SubSeq(name, LastDot(name) + 1, Len(name))

ExtensionCall == pc = "ret" /\ res.f = "group" /\ config.groupby = "extension"

\* C4 as stated: the key is what follows the last dot of the name, and
\* 'other' when nothing does.
C4_AfterLastDot ==
    ExtensionCall =>
        res.value = IF LastDot(arg.path) > 0 /\ AfterLastDot(arg.path) # <<>>
                    THEN AfterLastDot(arg.path) ELSE K_other

\* C4 as amended: the key is what follows the last dot when a character
\* other than a dot stands before that dot and a character after it; it is
\* 'other' for a name without a dot and for a name whose only dot is its
\* first character.
C4_Extension ==
    ExtensionCall =>
        LET name == arg.path
            i == LastDot(name)
        IN  /\ (i < Len(name) /\ \E j \in 1..(i - 1) : name[j] # ".")
                  => res.value = AfterLastDot(name)
            /\ i = 0 => res.value = K_other
            /\ (i = 1 /\ Len(name) > 1) => res.value = K_other

\* a dot file was classified
C4_DotFile ==
    /\ ExtensionCall
    /\ LastDot(arg.path) = 1
    /\ Len(arg.path) > 1
    /\ res.value = K_other

\* C7: a line goes to blanks when nothing but whitespace is on it, the
\* empty line included, and to lines otherwise; every line of the blob goes
\* to one of the two.
C7_BlankOrLine ==
    (pc = "ret" /\ res.f = "readlines") =>
        LET bodies == LineBodies(arg.data)
        IN  /\ Len(res.kinds) = Len(bodies)
            /\ \A i \in 1..Len(bodies) :
                  res.kinds[i].k = IF BlankBody(bodies[i]) THEN "blanks" ELSE "lines"

\* a blob with an empty line, a line of blanks and a line of text
C7_AllKinds ==
    /\ pc = "ret"
    /\ res.f = "readlines"
    /\ \E i \in 1..Len(res.kinds) : res.kinds[i].line = <<"LF">> /\ res.kinds[i].k = "blanks"
    /\ \E i \in 1..Len(res.kinds) : res.kinds[i].line = <<"SP">> /\ res.kinds[i].k = "blanks"
    /\ \E i \in 1..Len(res.kinds) : res.kinds[i].k = "lines"

\* the records folded so far whose file has extension e
RecordsOf(e) == {i \in 1..Len(hseen) : groupExtension(hseen[i].path) = e}

NetOf(i) == hseen[i].insertions - hseen[i].deletions

====
